---- MODULE Spec2Model ----
(***************************************************************************)
(* A model of mpool (src/src/lib.rs): a generic connection pool.           *)
(*                                                                         *)
(* The pool is a mutex-protected record PoolInternals {conns, active}.     *)
(* Every helper of Pool (pop_front, push_back, incr_active, decr_active,   *)
(* idle_count, exceed_limit) takes the lock for the length of one call, so *)
(* each of them is one atomic step and the steps of concurrent callers and *)
(* of the background task `check` interleave between them.                 *)
(*                                                                         *)
(* Time is a discrete clock `now` counted in seconds.  Option<Duration> is *)
(* modelled as a set: {} is None and {d} is Some(d).                       *)
(***************************************************************************)
EXTENDS Integers, Sequences, FiniteSets, TLC

\* ------------------------------------------------------------------ bounds
NumProcs == 2       \* concurrent callers of the pool
MaxConns == 2       \* successful calls of ManageConnection::connect
MaxTime  == 3       \* the clock stops here
MaxSize  == 1       \* the non-zero max_size the builder is given

\* ------------------------------------------------------- program constants
CheckInterval == 3                      \* delay_for(Duration::from_secs(3))
DefaultMaxLifetime == 60 * 30           \* Builder::default
DefaultIdleTimeout == 3 * 60
DefaultConnectionTimeout == 3
ScenarioConns == 5                      \* test_idle_timeout: for _ in 0..5
\* PoolInternals.active is a u32.  TLC's integers are 32-bit signed, so the
\* largest of them stands for u32::MAX, the value a wrapping u32 takes below 0.
U32Max == 2147483647

Procs == 1 .. NumProcs
None == {}
Some(d) == {d}

VARIABLES
    cfg,        \* SharedPool's immutable fields, as built by Builder::build
    conns,      \* PoolInternals.conns: the idle connections, front first
    active,     \* PoolInternals.active
    leased,     \* the live Connection<M> values: the IdleConn each one holds
    pc,         \* pc[p]: where caller p is inside get / get_timeout
    dialed,     \* dialed[p]: the connection get_timeout returned to get
    deadline,   \* deadline[p]: when timeout() around connect() fires, or None
    ret,        \* ret[p]: what p's last finished call returned
    nextId,     \* identity of the next connection connect() creates
    now,        \* Instant::now()
    spc,        \* where the background task `check` is
    n,          \* iterations its `for _ in 0..n` still has to run
    cur,        \* the IdleConn it has popped: {} or {conn}
    wakeAt,     \* when its delay_for returns
    broken,     \* the connections ManageConnection::has_broken reports broken
    checked,    \* history: the connections this sweep has called check on
    late        \* history: the connections released since this sweep's snapshot

poolVars  == <<conns, active>>
callVars  == <<leased, pc, dialed, deadline, ret, nextId>>
sweepVars == <<spc, n, cur, wakeAt>>
histVars  == <<checked, late>>
vars == <<cfg, conns, active, leased, pc, dialed, deadline, ret, nextId, now,
          spc, n, cur, wakeAt, broken, checked, late>>

\* ----------------------------------------------------------------- Builder
BuilderDefault ==
    [ max_lifetime       |-> Some(DefaultMaxLifetime),
      idle_timeout       |-> Some(DefaultIdleTimeout),
      connection_timeout |-> Some(DefaultConnectionTimeout),
      max_size           |-> 0 ]

BuilderMaxLifetime(b, max_lifetime) ==
    IF max_lifetime = Some(0) THEN b ELSE [b EXCEPT !.max_lifetime = max_lifetime]

BuilderIdleTimeout(b, idle_timeout) ==
    IF idle_timeout = Some(0) THEN b ELSE [b EXCEPT !.idle_timeout = idle_timeout]

BuilderConnectionTimeout(b, connection_timeout) ==
    IF connection_timeout = Some(0) THEN b
    ELSE [b EXCEPT !.connection_timeout = connection_timeout]

BuilderMaxSize(b, max_size) == [b EXCEPT !.max_size = max_size]

\* Pool::builder().max_size(ms).max_lifetime(ml).idle_timeout(it)
\*     .connection_timeout(ct).build(manager)
Build(ms, ml, it, ct) ==
    BuilderConnectionTimeout(
        BuilderIdleTimeout(
            BuilderMaxLifetime(BuilderMaxSize(BuilderDefault, ms), ml), it), ct)

\* The pools that are built: a bounded pool whose idle connections expire and
\* whose dial is timed, and an unbounded one whose connections have a maximum
\* lifetime and whose dial is not timed.
Pools ==
    { Build(MaxSize, None, Some(1), Some(1)),
      Build(0, Some(2), Some(0), None) }

\* ------------------------------------------------------- PoolInternals ops
IdleConn(id, t) == [conn |-> id, last_visited |-> t, created |-> t]

\* incr_active left out.
IncrActiveSkipped(a) == a

IncrActive(a) == IF a = U32Max THEN 0 ELSE a + 1

\* decr_active left out.
DecrActiveSkipped(a) == a

DecrActive(a) == IF a = 0 THEN U32Max ELSE a - 1

\* LinkedList::pop_front on a list that is not empty: the entry it returns and
\* the list it leaves.
PopFrontConn(q) == Head(q)

\* The list pop_back leaves.
PopBackRest(q) == SubSeq(q, 1, Len(q) - 1)

PopFrontRest(q) == Tail(q)

\* push_front in the place of push_back.
PushFront(q, c) == <<c>> \o q

PushBack(q, c) == Append(q, c)

\* exceed_idle_timeout without its test for the zero duration.
ExceedIdleTimeoutAnyDuration(c) ==
    \E idle_timeout \in cfg.idle_timeout : c.last_visited + idle_timeout < now

ExceedIdleTimeout(c) ==
    \E idle_timeout \in cfg.idle_timeout :
        idle_timeout > 0 /\ c.last_visited + idle_timeout < now

ExceedMaxLifetime(c) ==
    \E max_lifetime \in cfg.max_lifetime :
        max_lifetime > 0 /\ c.created + max_lifetime < now

ExceedLimit == cfg.max_size > 0 /\ active > cfg.max_size

\* ------------------------------------------------------------------- Init
Init ==
    /\ cfg \in Pools
    /\ conns = << >>
    /\ active = 0
    /\ leased = {}
    /\ pc = [p \in Procs |-> "idle"]
    /\ dialed = [p \in Procs |-> 0]
    /\ deadline = [p \in Procs |-> None]
    /\ ret = [p \in Procs |-> "none"]
    /\ nextId = 1
    /\ now = 0
    /\ spc = "sleep"
    /\ n = 0
    /\ cur = {}
    /\ wakeAt = CheckInterval
    /\ broken = {}
    /\ checked = {}
    /\ late = {}

\* -------------------------------------------------------------- Pool::get
\* get, first statement: pop_front; Some(conn) is returned as a Connection.
GetPop(p) ==
    /\ pc[p] = "idle"
    /\ IF conns # << >>
       THEN /\ conns' = PopFrontRest(conns)
            /\ leased' = leased \cup {PopFrontConn(conns)}
            /\ ret' = [ret EXCEPT ![p] = "reused"]
            /\ pc' = pc
       ELSE /\ pc' = [pc EXCEPT ![p] = "limit"]
            /\ ret' = [ret EXCEPT ![p] = "none"]
            /\ UNCHANGED <<conns, leased>>
    /\ UNCHANGED <<cfg, broken, active, dialed, deadline, nextId, now,
                   sweepVars, histVars>>

\* get, second statement: exceed_limit, then the call of get_timeout with the
\* configured connection_timeout, which starts timeout(..) around connect().
GetLimit(p) ==
    /\ pc[p] = "limit"
    /\ IF ExceedLimit
       THEN /\ pc' = [pc EXCEPT ![p] = "idle"]
            /\ ret' = [ret EXCEPT ![p] = "exceed limit"]
            /\ UNCHANGED deadline
       ELSE /\ pc' = [pc EXCEPT ![p] = "dial"]
            /\ deadline' = [deadline EXCEPT
                                ![p] = { now + t : t \in cfg.connection_timeout }]
            /\ UNCHANGED ret
    /\ UNCHANGED <<cfg, broken, poolVars, leased, dialed, nextId, now,
                   sweepVars, histVars>>

\* Pool::get_timeout called by the user: it starts connect() under the timeout
\* it is given and touches nothing else.
TimeoutArgs == {None, Some(1)}

GetTimeoutCall(p, connection_timeout) ==
    /\ pc[p] = "idle"
    /\ pc' = [pc EXCEPT ![p] = "direct"]
    /\ deadline' = [deadline EXCEPT ![p] = { now + t : t \in connection_timeout }]
    /\ ret' = [ret EXCEPT ![p] = "none"]
    /\ UNCHANGED <<cfg, broken, poolVars, leased, dialed, nextId, now,
                   sweepVars, histVars>>

\* timeout(..) polls connect() first: the dial wins when both are ready.
DialInTime(p) == \A d \in deadline[p] : now <= d
DialTimedOut(p) == \E d \in deadline[p] : now >= d

InGetTimeout(p) == pc[p] \in {"dial", "direct"}

\* A get that counts the connection before it dials and does not take the
\* count back when the dial fails.
DialFailCounted(p, e) ==
    /\ pc' = [pc EXCEPT ![p] = "idle"]
    /\ ret' = [ret EXCEPT ![p] = e]
    /\ deadline' = [deadline EXCEPT ![p] = None]
    /\ active' = IncrActive(active)
    /\ UNCHANGED <<cfg, broken, conns, leased, dialed, nextId, now,
                   sweepVars, histVars>>

\* get_timeout returns Err(e): get's `?` passes it on to the caller of get.
DialFail(p, e) ==
    /\ pc' = [pc EXCEPT ![p] = "idle"]
    /\ ret' = [ret EXCEPT ![p] = e]
    /\ deadline' = [deadline EXCEPT ![p] = None]
    /\ UNCHANGED <<cfg, broken, poolVars, leased, dialed, nextId, now,
                   sweepVars, histVars>>

\* get_timeout: connect() returns Ok(conn).  Inside get the connection goes on
\* to incr_active; called by the user it is handed over as it is.
DialOkStep(p) ==
    /\ InGetTimeout(p)
    /\ DialInTime(p)
    /\ nextId' = nextId + 1
    /\ deadline' = [deadline EXCEPT ![p] = None]
    /\ IF pc[p] = "dial"
       THEN /\ dialed' = [dialed EXCEPT ![p] = nextId]
            /\ pc' = [pc EXCEPT ![p] = "incr"]
            /\ UNCHANGED ret
       ELSE /\ pc' = [pc EXCEPT ![p] = "idle"]
            /\ ret' = [ret EXCEPT ![p] = "raw"]
            /\ UNCHANGED dialed
    /\ UNCHANGED <<cfg, broken, poolVars, leased, now, sweepVars, histVars>>

DialOk(p) == nextId <= MaxConns /\ DialOkStep(p)

\* get_timeout: connect() returns Err.
DialErr(p) ==
    /\ InGetTimeout(p)
    /\ DialInTime(p)
    /\ DialFail(p, "connect error")

\* get_timeout: the timeout elapses first.
DialTimeout(p) ==
    /\ InGetTimeout(p)
    /\ DialTimedOut(p)
    /\ DialFail(p, "timeout")

\* get, last statements: incr_active, then the new Connection is returned.
GetIncr(p) ==
    /\ pc[p] = "incr"
    /\ active' = IncrActive(active)
    /\ leased' = leased \cup {IdleConn(dialed[p], now)}
    /\ dialed' = [dialed EXCEPT ![p] = 0]
    /\ pc' = [pc EXCEPT ![p] = "idle"]
    /\ ret' = [ret EXCEPT ![p] = "created"]
    /\ UNCHANGED <<cfg, broken, conns, deadline, nextId, now,
                   sweepVars, histVars>>

\* ------------------------------------------------ Drop for Connection, put
\* self.conn.take(): the Connection gives its IdleConn away.
\* TakeKept: the entry is handed to put and stays in the Connection as well.
TakeKept(c) == leased

Take(c) == leased \ {c}

\* put without the refresh of last_visited.
PutStale(q, c) == PushBack(q, c)

\* A drop that closes the connection: the lease ends, active goes down and
\* nothing enters the idle list.
DropClosed(c) ==
    /\ c \in leased
    /\ leased' = Take(c)
    /\ active' = DecrActive(active)
    /\ UNCHANGED <<cfg, broken, conns, pc, dialed, deadline, ret, nextId, now,
                   sweepVars, histVars>>

Put(q, c) == PushBack(q, [c EXCEPT !.last_visited = now])

Drop(c) ==
    /\ c \in leased
    /\ leased' = Take(c)
    /\ conns' = Put(conns, c)
    /\ late' = IF spc = "sleep" THEN late ELSE late \cup {c.conn}
    /\ UNCHANGED <<cfg, broken, active, pc, dialed, deadline, ret, nextId, now,
                   sweepVars, checked>>

\* ------------------------------------------------------------ Pool::check
\* delay_for returns; n = idle_count().
SweepWake ==
    /\ spc = "sleep"
    /\ now >= wakeAt
    /\ n' = Len(conns)
    /\ spc' = "loop"
    /\ checked' = {}
    /\ late' = {}
    /\ UNCHANGED <<cfg, broken, poolVars, callVars, now, cur, wakeAt>>

\* The for loop is over (or pop_front returned None and it breaks): the task
\* goes back to delay_for.
SweepSleep ==
    /\ spc = "loop"
    /\ n = 0 \/ conns = << >>
    /\ spc' = "sleep"
    /\ n' = 0
    /\ wakeAt' = now + CheckInterval
    /\ checked' = {}
    /\ late' = {}
    /\ UNCHANGED <<cfg, broken, poolVars, callVars, now, cur>>

\* `for _ in 0..n`: what is left of the range after one iteration.
\* RangeStuck: a loop that does not count its iterations.
RangeStuck(k) == k

RangeNext(k) == k - 1

\* One iteration: pop_front, then the two expiry tests on the popped entry.
SweepPop ==
    /\ spc = "loop"
    /\ n > 0
    /\ conns # << >>
    /\ conns' = PopFrontRest(conns)
    /\ cur' = {PopFrontConn(conns)}
    /\ n' = RangeNext(n)
    /\ IF \/ ExceedIdleTimeout(PopFrontConn(conns))
          \/ ExceedMaxLifetime(PopFrontConn(conns))
       THEN spc' = "expired" /\ checked' = checked
       ELSE spc' = "check" /\ checked' = checked \cup {PopFrontConn(conns).conn}
    /\ UNCHANGED <<cfg, broken, active, callVars, now, wakeAt, late>>

\* An expired entry that is put back at the tail and stays counted.
SweepEvictKept ==
    /\ spc = "expired"
    /\ \E c \in cur : conns' = PushBack(conns, c)
    /\ cur' = {}
    /\ spc' = "loop"
    /\ UNCHANGED <<cfg, broken, active, callVars, now, n, wakeAt, histVars>>

\* The entry has expired: decr_active; the entry is dropped.
SweepEvict ==
    /\ spc = "expired"
    /\ active' = DecrActive(active)
    /\ cur' = {}
    /\ spc' = "loop"
    /\ UNCHANGED <<cfg, broken, conns, callVars, now, n, wakeAt, histVars>>

\* manager.check returns Ok: push_back.
SweepCheckOk ==
    /\ spc = "check"
    /\ \E c \in cur : conns' = PushBack(conns, c)
    /\ cur' = {}
    /\ spc' = "loop"
    /\ UNCHANGED <<cfg, broken, active, callVars, now, n, wakeAt, histVars>>

\* manager.check returns Err: decr_active; the entry is dropped.
SweepCheckErr ==
    /\ spc = "check"
    /\ active' = DecrActive(active)
    /\ cur' = {}
    /\ spc' = "loop"
    /\ UNCHANGED <<cfg, broken, conns, callVars, now, n, wakeAt, histVars>>

\* -------------------------------------------------------------------- time
\* One second passes, unless a timer is due: delay_for and timeout(..) return
\* when their time has come.  The clock stops at `last`.
TickUntil(last) ==
    /\ now < last
    /\ spc = "sleep" => now < wakeAt
    /\ \A p \in Procs : \A d \in deadline[p] : now < d
    /\ now' = now + 1
    /\ UNCHANGED <<cfg, broken, poolVars, callVars, sweepVars, histVars>>

Tick == TickUntil(MaxTime)

Next ==
    \/ \E p \in Procs : GetPop(p)
    \/ \E p \in Procs : GetLimit(p)
    \/ \E p \in Procs : DialOk(p)
    \/ \E p \in Procs : DialErr(p)
    \/ \E p \in Procs : DialTimeout(p)
    \/ \E p \in Procs : GetIncr(p)
    \/ \E c \in leased : Drop(c)
    \/ SweepWake
    \/ SweepSleep
    \/ SweepPop
    \/ SweepEvict
    \/ SweepCheckOk
    \/ SweepCheckErr
    \/ Tick

\* get, the drop of a Connection and the background task.
Spec == Init /\ [][Next]_vars

\* The same with the callers also calling get_timeout themselves.
NextApi ==
    \/ Next
    \/ \E p \in Procs, t \in TimeoutArgs : GetTimeoutCall(p, t)

SpecApi == Init /\ [][NextApi]_vars

\* ------------------------------------------- test_idle_timeout, _max_lifetime
\* The pools of the two tests (Some(0) leaves a builder field at its default).
TestPools ==
    { Build(0, Some(0), Some(1), Some(0)),
      Build(0, Some(1), Some(0), Some(0)) }

InitD ==
    /\ cfg \in TestPools
    /\ conns = << >>
    /\ active = 0
    /\ leased = {}
    /\ pc = [p \in Procs |-> "idle"]
    /\ dialed = [p \in Procs |-> 0]
    /\ deadline = [p \in Procs |-> None]
    /\ ret = [p \in Procs |-> "none"]
    /\ nextId = 1
    /\ now = 0
    /\ spc = "sleep"
    /\ n = 0
    /\ cur = {}
    /\ wakeAt = CheckInterval
    /\ broken = {}
    /\ checked = {}
    /\ late = {}

\* The test task has pushed its five connections / has dropped the vector.
TestGotAll == nextId = ScenarioConns + 1 /\ pc[1] = "idle"
TestDroppedAll == TestGotAll /\ leased = {}

\* The test task: five calls of get (FakeManager::connect returns Ok at once),
\* drop(conns), then delay_for.  The clock moves while the test sleeps; what
\* comes before takes no time on it.
NextD ==
    \/ nextId <= ScenarioConns /\ GetPop(1)
    \/ GetLimit(1)
    \/ DialOkStep(1)
    \/ GetIncr(1)
    \/ TestGotAll /\ \E c \in leased : Drop(c)
    \/ TestDroppedAll /\ Tick
    \/ SweepWake
    \/ SweepSleep
    \/ SweepPop
    \/ SweepEvict

SpecD == InitD /\ [][NextD]_vars

\* ------------------------------------------------------------------ claims
Range(q) == { q[i] : i \in 1 .. Len(q) }

Ids(S) == { c.conn : c \in S }

\* C1: with max_size > 0, active never exceeds max_size.
C1_ActiveWithinMaxSize == cfg.max_size > 0 => active <= cfg.max_size

\* C2: a get that finds no idle connection while max_size > 0 and
\* active = max_size returns the capacity error from its limit check, without
\* dialing, and leaves active, the idle list and the leases as they were.
C2_FullPoolRejects ==
    [][\A p \in Procs :
          ( /\ pc[p] = "limit" /\ pc'[p] # "limit"
            /\ cfg.max_size > 0 /\ conns = << >> /\ active = cfg.max_size )
          => ( /\ pc'[p] = "idle"
               /\ ret'[p] = "exceed limit"
               /\ nextId' = nextId
               /\ UNCHANGED <<conns, active, leased>> )]_vars

C5_IdleWithinActive == Len(conns) <= active

\* Every counted connection is idle, after the background task has run.
C5_Witness == Len(conns) = active /\ active > 0 /\ wakeAt > CheckInterval

\* C6: a dial that fails or times out ends the get with that error and leaves
\* active, the idle list and the leases alone; active grows only by one, in
\* the step of a get whose dial returned a connection in time.
C6_DialFailureFrame ==
    [][/\ \A p \in Procs :
             (pc[p] = "dial" /\ pc'[p] = "idle")
             => ( /\ ret'[p] \in {"connect error", "timeout"}
                  /\ ret'[p] = "timeout" => DialTimedOut(p)
                  /\ UNCHANGED <<conns, active, leased, nextId>> )
       /\ \A p \in Procs :
             (pc[p] = "dial" /\ pc'[p] = "incr")
             => (DialInTime(p) /\ UNCHANGED <<conns, active, leased>>)
       /\ active' > active
             => ( /\ active' = active + 1
                  /\ \E p \in Procs :
                        /\ pc[p] = "incr" /\ pc'[p] = "idle"
                        /\ ret'[p] = "created" )]_vars

\* One get has timed out and another has met a connect error, with a
\* connection counted.
C6_Witness ==
    /\ \E p \in Procs : ret[p] = "timeout" /\ pc[p] = "idle"
    /\ \E p \in Procs : ret[p] = "connect error" /\ pc[p] = "idle"
    /\ active = 1

\* C7: a connection is in one place at most: once in the idle list, or in one
\* lease, or in the hands of the background task, or on its way out of get.
C7_OnePlace ==
    /\ \A i, j \in 1 .. Len(conns) : conns[i].conn = conns[j].conn => i = j
    /\ \A c, d \in leased : c.conn = d.conn => c = d
    /\ Ids(Range(conns)) \cap Ids(leased) = {}
    /\ Ids(Range(conns)) \cap Ids(cur) = {}
    /\ Ids(leased) \cap Ids(cur) = {}
    /\ \A p \in Procs :
          dialed[p] # 0 => dialed[p] \notin Ids(Range(conns) \cup leased \cup cur)

\* One connection was released and is idle while another, released and taken
\* again, is leased.
C7_Witness ==
    /\ conns # << >>
    /\ \E c \in leased : c.last_visited > c.created

\* C8: five connections acquired and all released, idle_timeout (or
\* max_lifetime) one second: two seconds later active is 0.
C8_EvictedAfterTwoSeconds == (TestDroppedAll /\ now >= 2) => active = 0

\* The background task has not run yet: it is in its first delay_for.
NoSweepYet == spc = "sleep" /\ wakeAt = CheckInterval

C10_GetTimeoutLikeGet ==
    [][\A p \in Procs :
          /\ (pc[p] = "idle" /\ pc'[p] = "direct")
                => (conns = << >> /\ ~ (cfg.max_size > 0 /\ active >= cfg.max_size))
          /\ (pc[p] = "direct" /\ ret'[p] = "raw")
                => (active' = active + 1 /\ Cardinality(leased') = Cardinality(leased) + 1)]_vars

\* --------------------------------------------------------- zero durations
\* Pools built with a zero duration: idle_timeout(Some(0)) on a pool without a
\* maximum lifetime, and max_lifetime(Some(0)) on one without an idle timeout.
ZeroPools ==
    { Build(0, None, Some(0), Some(0)),
      Build(0, Some(0), None, Some(0)) }

\* Builder's fields are pub: a pool whose two durations were set to zero in
\* the builder itself, past the setters.
FieldZeroPool ==
    [BuilderDefault EXCEPT !.idle_timeout = Some(0), !.max_lifetime = Some(0)]

LongTime == DefaultMaxLifetime + 2 * CheckInterval

InitZ ==
    /\ cfg \in ZeroPools \cup {FieldZeroPool}
    /\ conns = << >>
    /\ active = 0
    /\ leased = {}
    /\ pc = [p \in Procs |-> "idle"]
    /\ dialed = [p \in Procs |-> 0]
    /\ deadline = [p \in Procs |-> None]
    /\ ret = [p \in Procs |-> "none"]
    /\ nextId = 1
    /\ now = 0
    /\ spc = "sleep"
    /\ n = 0
    /\ cur = {}
    /\ wakeAt = CheckInterval
    /\ broken = {}
    /\ checked = {}
    /\ late = {}

\* One connection is taken and given back; then it stays in the idle list
\* while the clock runs past the default durations and the background task,
\* whose checks succeed and whose sweeps take no time, sweeps every
\* CheckInterval.
NextZ ==
    \/ nextId = 1 /\ GetPop(1)
    \/ GetLimit(1)
    \/ DialOkStep(1)
    \/ GetIncr(1)
    \/ \E c \in leased : Drop(c)
    \/ /\ nextId = 2 /\ pc[1] = "idle" /\ leased = {}
       /\ spc = "sleep"
       /\ TickUntil(LongTime)
    \/ SweepWake
    \/ SweepSleep
    \/ SweepPop
    \/ SweepEvict
    \/ SweepCheckOk

SpecZ == InitZ /\ [][NextZ]_vars

\* C11 (as stated): a pool built with idle_timeout zero never finds an entry
\* expired for its idle time, and one built with max_lifetime zero never finds
\* one expired for its age.
C11_ZeroDisables == cfg \in ZeroPools => spc # "expired"

\* C11 (amended): a zero given to Builder::idle_timeout or ::max_lifetime
\* leaves the default in force, and an entry expires exactly by that default;
\* only a zero that is the pool's duration itself disables the test.
C11_ZeroKeepsDefault ==
    /\ cfg = FieldZeroPool => spc # "expired"
    /\ cfg \in ZeroPools =>
          /\ cfg.idle_timeout \in {None, Some(DefaultIdleTimeout)}
          /\ cfg.max_lifetime \in {None, Some(DefaultMaxLifetime)}
          /\ spc = "expired" =>
                \A c \in cur :
                    \/ /\ cfg.idle_timeout = Some(DefaultIdleTimeout)
                       /\ c.last_visited + DefaultIdleTimeout < now
                    \/ /\ cfg.max_lifetime = Some(DefaultMaxLifetime)
                       /\ c.created + DefaultMaxLifetime < now

\* The pool built with max_lifetime(Some(0)) has found its connection expired.
C11_Witness ==
    /\ cfg = Build(0, Some(0), None, Some(0))
    /\ spc = "expired"
    /\ \E c \in cur : c.created + DefaultMaxLifetime < now

\* ----------------------------------------------------- broken connections
\* ManageConnection::has_broken starts to answer true for a connection that
\* lies in the idle list.
Break(id) ==
    /\ \E i \in 1 .. Len(conns) : conns[i].conn = id
    /\ id \notin broken
    /\ broken' = broken \cup {id}
    /\ UNCHANGED <<cfg, poolVars, callVars, now, sweepVars, histVars>>

\* Callers take and give back connections while connections break.
NextB ==
    \/ \E p \in Procs :
          \/ GetPop(p)
          \/ GetLimit(p)
          \/ DialOk(p)
          \/ DialErr(p)
          \/ GetIncr(p)
    \/ \E c \in leased : Drop(c)
    \/ \E id \in 1 .. MaxConns : Break(id)

SpecB == Init /\ [][NextB]_vars

\* C12: a connection that get hands out is one has_broken does not report
\* broken: get asks has_broken and discards the broken ones.
C12_BrokenNeverReturned ==
    [][\A c \in leased' \ leased : c.conn \notin broken]_vars

\* ------------------------------------------------ lifetime while checked out
\* C13: a connection that reached its maximum lifetime while it was checked
\* out is closed when it is given back: it does not enter the idle list.
C13_ExpiredClosedOnReturn ==
    [][\A c \in leased \ leased' :
          ExceedMaxLifetime(c) =>
              \A i \in 1 .. Len(conns') : conns'[i].conn # c.conn]_vars

\* ------------------------------------------------------ check and increment
\* C14: the limit check of get and its increment of active are one atomic
\* step: from the moment a caller has passed the check until it has
\* incremented, no other caller passes the check and active does not change.
C14_CheckAndIncrAtomic ==
    [][\A p \in Procs :
          (pc[p] \in {"dial", "incr"} /\ pc'[p] = pc[p]) =>
              /\ active' = active
              /\ \A q \in Procs \ {p} : ~(pc[q] = "limit" /\ pc'[q] = "dial")]_vars

\* ------------------------------------------------------------- one sweep
\* C15: within one sweep a connection is health-checked at most once: the
\* entry a sweep is about to check is not one it has checked already.
C15_CheckedOncePerSweep ==
    [][(spc = "loop" /\ spc' = "check") =>
          \A c \in cur' : c.conn \notin checked]_vars

\* C16: a sweep never pops an entry that a release has added to the idle list
\* after the sweep took its length snapshot.
C16_LateEntriesUntouched ==
    [][(spc = "loop" /\ spc' \in {"expired", "check"}) =>
          \A c \in cur' : c.conn \notin late]_vars

\* --------------------------------------------------------- a popped entry
\* The connections that are somewhere: idle, leased, held by the background
\* task, or dialed by a get that has not returned yet.
Held ==
    Ids(Range(conns) \cup leased \cup cur)
        \cup { dialed[p] : p \in { q \in Procs : dialed[q] # 0 } }

\* C17: the sweep takes the head of the idle list; an expired entry is dropped
\* without a check and active goes down by one; any other entry is checked and
\* is then either pushed to the tail with active unchanged or dropped with
\* active down by one; a connection that is nowhere stays nowhere.
C17_PoppedEntry ==
    [][/\ (spc = "loop" /\ spc' \in {"expired", "check"}) =>
             /\ conns # << >>
             /\ cur' = {Head(conns)}
             /\ conns' = Tail(conns)
             /\ active' = active
             /\ spc' = "expired" <=>
                   \/ ExceedIdleTimeout(Head(conns))
                   \/ ExceedMaxLifetime(Head(conns))
       /\ (spc = "expired" /\ spc' # "expired") =>
             /\ spc' = "loop"
             /\ cur' = {}
             /\ conns' = conns
             /\ active >= 1
             /\ active' = active - 1
       /\ (spc = "check" /\ spc' # "check") =>
             /\ spc' = "loop"
             /\ cur' = {}
             /\ \/ \E c \in cur : conns' = Append(conns, c) /\ active' = active
                \/ conns' = conns /\ active >= 1 /\ active' = active - 1
       /\ \A id \in 1 .. nextId - 1 : id \notin Held => id \notin Held']_vars

\* In a sweep that has checked an entry, a connection has been dropped and
\* another one is idle.
C17_Witness ==
    /\ spc = "loop"
    /\ checked # {}
    /\ conns # << >>
    /\ \E id \in 1 .. nextId - 1 : id \notin Held

\* ------------------------------------------------------ the loop of check
\* A pool whose durations are all shorter than Horizon.
PoolsL == { Build(MaxSize, Some(2), Some(1), Some(1)) }

Horizon == CheckInterval + 1

InitL ==
    /\ cfg \in PoolsL
    /\ conns = << >>
    /\ active = 0
    /\ leased = {}
    /\ pc = [p \in Procs |-> "idle"]
    /\ dialed = [p \in Procs |-> 0]
    /\ deadline = [p \in Procs |-> None]
    /\ ret = [p \in Procs |-> "none"]
    /\ nextId = 1
    /\ now = 0
    /\ spc = "sleep"
    /\ n = 0
    /\ cur = {}
    /\ wakeAt = CheckInterval
    /\ broken = {}
    /\ checked = {}
    /\ late = {}

\* An Instant has no origin: the pool only compares differences of Instants
\* with durations.  Once the clock stands at Horizon, a second passes by
\* moving every stored Instant one second into the past; an Instant that is
\* Horizon or more in the past is beyond every duration of the pool already.
Shift(t) == IF t > 0 THEN t - 1 ELSE 0

ShiftConn(c) ==
    [c EXCEPT !.created = Shift(@), !.last_visited = Shift(@)]

TickShift ==
    /\ now = Horizon
    /\ spc = "sleep" => now < wakeAt
    /\ \A p \in Procs : \A d \in deadline[p] : now < d
    /\ conns' = [i \in DOMAIN conns |-> ShiftConn(conns[i])]
    /\ leased' = { ShiftConn(c) : c \in leased }
    /\ cur' = { ShiftConn(c) : c \in cur }
    /\ deadline' = [p \in Procs |-> { Shift(d) : d \in deadline[p] }]
    /\ wakeAt' = Shift(wakeAt)
    /\ UNCHANGED <<cfg, broken, active, pc, dialed, ret, nextId, now, spc, n,
                   histVars>>

TickL ==
    \/ TickUntil(Horizon)
    \/ TickShift

\* One task calls get, and drops what it got, next to the background task.
CallersL == {1}

NextL ==
    \/ \E p \in CallersL : GetPop(p)
    \/ \E p \in CallersL : GetLimit(p)
    \/ \E p \in CallersL : DialOk(p)
    \/ \E p \in CallersL : DialErr(p)
    \/ \E p \in CallersL : DialTimeout(p)
    \/ \E p \in CallersL : GetIncr(p)
    \/ \E c \in leased : Drop(c)
    \/ SweepWake
    \/ SweepSleep
    \/ SweepPop
    \/ SweepEvict
    \/ SweepCheckOk
    \/ SweepCheckErr
    \/ TickL

\* Time passes, timers fire, the spawned task gets to run and takes the lock
\* (no holder keeps it across an await), and manager.check returns.
FairL ==
    /\ WF_vars(TickL)
    /\ \A p \in CallersL : WF_vars(DialTimeout(p))
    /\ WF_vars(SweepWake)
    /\ WF_vars(SweepPop \/ SweepSleep)
    /\ WF_vars(SweepEvict)
    /\ WF_vars(SweepCheckOk \/ SweepCheckErr)

SpecL == InitL /\ [][NextL]_vars /\ FairL

\* C18: the background loop never stops: every pop uses up one of the n
\* iterations of its sweep, every sweep ends, whatever its checks and
\* evictions did, and another sweep starts, again and again.
C18_SweepsForever ==
    /\ [][(spc = "loop" /\ spc' \in {"expired", "check"}) =>
             (n > 0 /\ n' = n - 1)]_vars
    /\ []<>(spc = "sleep")
    /\ []<>(spc = "loop")

\* A sweep with an entry to pop is under way after a connection was dropped.
C18_Witness ==
    /\ spc = "loop"
    /\ n > 0
    /\ now = Horizon
    /\ wakeAt = 0
    /\ \E id \in 1 .. nextId - 1 : id \notin Held

\* ------------------------------------------------------------- the count
\* C19: active goes down only in the step in which the background task drops
\* the entry it has popped, by one, and no lease is touched by that step; a
\* lease ends only by its connection entering the idle list.
C19_OnlySweepDecrements ==
    [][/\ active' < active =>
             /\ spc \in {"expired", "check"}
             /\ spc' = "loop"
             /\ cur # {}
             /\ cur' = {}
             /\ conns' = conns
             /\ leased' = leased
             /\ active' = active - 1
       /\ \A c \in leased \ leased' :
             /\ active' = active
             /\ c.conn \in Ids(Range(conns'))]_vars

\* The background task has dropped a connection while another one is leased.
C19_Witness ==
    /\ leased # {}
    /\ spc = "loop"
    /\ cur = {}
    /\ \E id \in 1 .. nextId - 1 : id \notin Held
    /\ active = Cardinality(leased) + Len(conns)

\* C20: active counts exactly the idle entries, the leases and the entry the
\* background task holds, and the task never decrements at zero: active has
\* not wrapped and is at least one whenever the task holds an entry.
C20_Conservation ==
    /\ active = Len(conns) + Cardinality(leased) + Cardinality(cur)
    /\ spc \in {"expired", "check"} => active >= 1
    /\ active < U32Max

\* The background task holds an entry while another connection is leased.
C20_Witness ==
    /\ spc \in {"expired", "check"}
    /\ cur # {}
    /\ leased # {}
    /\ active = 2
====
